---- MODULE Spec2Model ----
(***************************************************************************)
(* Routing & Relay core of the A2A orchestrator:                           *)
(*   agents/orchestrator/routing_agent.py  (Descriptor Store, Discovery,   *)
(*                                          Router)                        *)
(*   agents/orchestrator/executor.py       (Relay)                         *)
(*                                                                         *)
(* Text that the code searches (queries, skill ids, tags, URLs, oracle     *)
(* replies) is a sequence of one-character strings, so that str.lower(),   *)
(* the `in` substring test and re.search are computed, not assumed.        *)
(* Text that the code only passes along (message contents, names) is a     *)
(* TLA+ string.                                                            *)
(***************************************************************************)
EXTENDS Integers, Sequences, FiniteSets, TLC

\* ------------------------------------------------------------------ text

Upper == <<"A","B","C","D","E","F","G","H","I","J","K","L","M",
           "N","O","P","Q","R","S","T","U","V","W","X","Y","Z">>
LowerCase == <<"a","b","c","d","e","f","g","h","i","j","k","l","m",
               "n","o","p","q","r","s","t","u","v","w","x","y","z">>

\* str.lower() on one character
LowerChar(c) ==
  IF \E i \in 1..26 : Upper[i] = c
    THEN LowerCase[CHOOSE i \in 1..26 : Upper[i] = c]
    ELSE c

\* str.lower()
Lower(s) == [i \in 1..Len(s) |-> LowerChar(s[i])]

\* Python's `s in q` on strings: s occurs in q as a contiguous substring
\* (the empty string occurs in every string).
IsSubstr(s, q) ==
  \E i \in 0..(Len(q) - Len(s)) : SubSeq(q, i + 1, i + Len(s)) = s

\* Characters the URL pattern's class [^\s"'<>] excludes.
UrlStop == {" ", "\n", "\t", "\"", "'", "<", ">"}

Http == <<"h","t","t","p">>
Sep  == <<":","/","/">>

\* s[i..] starts with p
StartsAt(s, i, p) ==
  /\ i + Len(p) - 1 <= Len(s)
  /\ SubSeq(s, i, i + Len(p) - 1) = p

\* Position of the first character of the URL body when https?:// matches
\* at i, else 0.
SchemeEnd(s, i) ==
  IF StartsAt(s, i, Http \o <<"s">> \o Sep) THEN i + 8
  ELSE IF StartsAt(s, i, Http \o Sep) THEN i + 7
  ELSE 0

\* Last position of the greedy run [^\s"'<>]+ that starts at j (j - 1 when
\* the run is empty).
RECURSIVE RunEnd(_, _)
RunEnd(s, j) ==
  IF j > Len(s) \/ s[j] \in UrlStop THEN j - 1 ELSE RunEnd(s, j + 1)

\* The pattern https?://[^\s"'<>]+ matches at position i.
MatchesAt(s, i) ==
  /\ SchemeEnd(s, i) # 0
  /\ RunEnd(s, SchemeEnd(s, i)) >= SchemeEnd(s, i)

NONE == <<"N","O","N","E">>

\* re.search(r"https?://[^\s\"'<>]+", content): the leftmost match, and
\* "NONE" when there is none.
UrlSearch(content) ==
  IF \E i \in 1..Len(content) : MatchesAt(content, i)
    THEN LET i == CHOOSE k \in 1..Len(content) :
                    /\ MatchesAt(content, k)
                    /\ \A m \in 1..(k - 1) : ~MatchesAt(content, m)
         IN  SubSeq(content, i, RunEnd(content, SchemeEnd(content, i)))
    ELSE NONE

\* ------------------------------------------------- descriptors (AgentCard)

UrlA == Http \o Sep \o <<"a">>
UrlB == Http \o <<"s">> \o Sep \o <<"b">>
UrlC == Http \o Sep \o <<"c">>
\* a well-formed URL that no worker advertises
UrlZ == Http \o Sep \o <<"z">>
\* a second address under which the worker behind UrlA is reachable
UrlAlias == Http \o Sep \o <<"a","2">>

TellTimeId  == <<"t","e","l","l","_","t","i","m","e">>
TimeTag     == <<"t","i","m","e">>
ClockTag    == <<"c","l","o","c","k">>
GreetId     == <<"g","r","e","e","t","_","w","i","t","h","_","q","u","o","t","e">>
GreetingTag == <<"g","r","e","e","t","i","n","g">>
QuoteTag    == <<"q","u","o","t","e">>
TokyoId     == <<"T","O","K","Y","O">>
ClockTagCap == <<"C","l","o","c","k">>

Skill(id, tags) == [id |-> id, tags |-> tags]

CardA == [url |-> UrlA, name |-> "Find Time Agent",
          skills |-> <<Skill(TellTimeId, <<TimeTag, ClockTag>>)>>]
CardB == [url |-> UrlB, name |-> "Greeting Agent",
          skills |-> <<Skill(GreetId, <<GreetingTag, QuoteTag>>)>>]
\* a card whose first skill has an empty id and no tags, and whose second
\* skill is written in upper case
CardC == [url |-> UrlC, name |-> "Guide Agent",
          skills |-> <<Skill(<< >>, << >>), Skill(TokyoId, <<ClockTagCap>>)>>]

\* self.peer_urls, and the card each peer serves at
\* /.well-known/agent-card.json
peer_urls == <<UrlA, UrlB, UrlC, UrlAlias>>
\* The key of the store is the url a card advertises (c.url), not the url it
\* was fetched from: the alias serves the card of the worker behind UrlA.
ServedCard(u) ==
  IF u = UrlA \/ u = UrlAlias THEN CardA
  ELSE IF u = UrlB THEN CardB
  ELSE CardC

\* What one _fetch_card can meet.
FetchOutcomes == {"ok", "network_error", "timeout", "bad_status", "malformed"}

\* _fetch_card that hands out the card whatever went wrong
FetchCardKeepsFailed(u, outcome) == <<ServedCard(u)>>

\* _fetch_card: the card, or None (an empty sequence) on any exception
FetchCard(u, outcome) == IF outcome = "ok" THEN <<ServedCard(u)>> ELSE << >>

\* The store is a Python dict url -> card, which keeps insertion order: a
\* sequence of cards with pairwise distinct urls.
HasKey(store, url) == \E i \in 1..Len(store) : store[i].url = url

Lookup(store, url) == store[CHOOSE i \in 1..Len(store) : store[i].url = url]

\* d[c.url] = c : a new key goes last, an old key keeps its place
DictPut(store, c) ==
  IF HasKey(store, c.url)
    THEN [i \in 1..Len(store) |-> IF store[i].url = c.url THEN c ELSE store[i]]
    ELSE Append(store, c)

\* {c.url: c for c in found if c}
RECURSIVE DictOfFound(_)
DictOfFound(found) ==
  IF found = << >> THEN << >>
  ELSE LET n == Len(found)
           rest == DictOfFound(SubSeq(found, 1, n - 1))
       IN  IF found[n] = << >> THEN rest ELSE DictPut(rest, found[n][1])

\* _discover: gather _fetch_card over peer_urls, then build the dict
DiscoverCards(outcomes) ==
  DictOfFound([i \in 1..Len(peer_urls) |-> FetchCard(peer_urls[i], outcomes[i])])

\* ---------------------------------------------------------------- Router

\* any(tag.lower() in q for tag in sk.tags or [])
AnyTagIn(sk, q) == \E j \in 1..Len(sk.tags) : IsSubstr(Lower(sk.tags[j]), q)

\* SkillHit that compares without lower-casing ids and tags
SkillHitCaseSensitive(sk, q) ==
  \/ (sk.id # << >> /\ IsSubstr(sk.id, q))
  \/ \E j \in 1..Len(sk.tags) : IsSubstr(sk.tags[j], q)

\* One pass of _fallback_by_tags' inner loop body: `sk.id and
\* sk.id.lower() in q`, or a tag match.
SkillHit(sk, q) ==
  \/ (sk.id # << >> /\ IsSubstr(Lower(sk.id), q))
  \/ AnyTagIn(sk, q)

\* for sk in c.skills, from the k-th skill on: some skill returns
RECURSIVE SkillsHitFrom(_, _, _)
SkillsHitFrom(skills, k, q) ==
  IF k > Len(skills) THEN FALSE
  ELSE IF SkillHit(skills[k], q) THEN TRUE
  ELSE SkillsHitFrom(skills, k + 1, q)

\* for c in self.cards.values(), from the i-th card on
RECURSIVE FallbackFrom(_, _, _)
FallbackFrom(store, i, q) ==
  IF i > Len(store) THEN NONE
  ELSE IF SkillsHitFrom(store[i].skills, 1, q) THEN store[i].url
  ELSE FallbackFrom(store, i + 1, q)

\* _fallback_by_tags(q)
_fallback_by_tags(store, q) == FallbackFrom(store, 1, q)

\* _choose_agent that lets the sentinel word win over a URL
ChooseAgentSentinelFirst(content) ==
  IF IsSubstr(NONE, content) THEN NONE ELSE UrlSearch(content)

\* _choose_agent, after the oracle has replied: the regex search on
\* reply.content
_choose_agent(content) == UrlSearch(content)

\* line 65 without its `not in self.cards` test
NeedsFallbackNoneOnly(store, url) == url = NONE

\* stream, line 65: whether Stage 2 runs
NeedsFallback(store, url) == url = NONE \/ ~HasKey(store, url)

\* RouteUrl that takes any URL of Stage 1 without looking it up
RouteUrlTrustingOracle(store, query, content) ==
  IF _choose_agent(content) = NONE
    THEN _fallback_by_tags(store, Lower(query))
    ELSE _choose_agent(content)

\* stream, lines 64-66: helper_url after both stages
RouteUrl(store, query, content) ==
  IF NeedsFallback(store, _choose_agent(content))
    THEN _fallback_by_tags(store, Lower(query))
    ELSE _choose_agent(content)

\* stream, line 68: no suitable worker
NoRoute(store, url) == url = NONE \/ ~HasKey(store, url)

\* ------------------------------------------------- worker-native events

\* An event as the Relay sees it after model_dump(exclude_none=True): a dict.
\* `keys` is the set of keys present; a field whose key is absent holds a
\* filler value that is never read.
NoStatus == [state |-> "", message |-> ""]
NoArtifact == [parts |-> << >>]

TextPart(t) == [kind |-> "text", text |-> t]
DataPart == [kind |-> "data", text |-> ""]
Artifact(parts) == [parts |-> parts]

Ev(keys, kind, status, artifact, artifacts, complete, content) ==
  [keys |-> keys, kind |-> kind, status |-> status, artifact |-> artifact,
   artifacts |-> artifacts, is_task_complete |-> complete, content |-> content,
   require_user_input |-> FALSE]

\* shape 1: {is_task_complete, require_user_input, content}
InlineEv(complete, content) ==
  Ev({"is_task_complete", "require_user_input", "content"}, "", NoStatus,
     NoArtifact, << >>, complete, content)

\* shape 1 with require_user_input set: the worker asks the user for more
InlineNeedsInputEv(content) ==
  [InlineEv(FALSE, content) EXCEPT !.require_user_input = TRUE]

\* shape 2 as an envelope: {kind: "status-update", status: {...}, final}
StatusUpdateEv(state, message) ==
  Ev({"kind", "status", "final"}, "status-update",
     [state |-> state, message |-> message], NoArtifact, << >>, FALSE, "")

\* shape 2: a Task snapshot {kind: "task", status: {...}} without artifacts
TaskEv(state, message) ==
  Ev({"kind", "status"}, "task", [state |-> state, message |-> message],
     NoArtifact, << >>, FALSE, "")

\* shape 3: a Task snapshot carrying its artifacts list
TaskArtifactsEv(state, artifacts) ==
  Ev({"kind", "status", "artifacts"}, "task",
     [state |-> state, message |-> ""], NoArtifact, artifacts, FALSE, "")

\* shape 3': an artifact-update envelope {kind, artifact}
ArtifactUpdateEv(artifact) ==
  Ev({"kind", "artifact"}, "artifact-update", NoStatus, artifact, << >>,
     FALSE, "")

\* a bare Message {kind: "message", role, parts}: none of the keys the Relay
\* reads
MessageEv == Ev({"kind"}, "message", NoStatus, NoArtifact, << >>, FALSE, "")

Answer   == "It is 10:00:00 in Asia/Tokyo."
Thinking == "thinking"
\* the no-route text of stream, line 72 (its typographic apostrophe and dash
\* written in ASCII)
Apology  == "I'm sorry - none of my helper agents can answer that."
\* f"Asking **{card.name}**..."
Asking(name) ==
  CASE name = "Find Time Agent" -> "Asking **Find Time Agent**..."
    [] name = "Greeting Agent" -> "Asking **Greeting Agent**..."
    [] OTHER                   -> "Asking **Guide Agent**..."

\* The events a worker stream may deliver.
WorkerEvents ==
  { InlineEv(FALSE, Thinking),
    InlineEv(FALSE, "still thinking"),
    InlineEv(TRUE, Answer),
    TaskEv("working", "looking up"),
    TaskEv("input_required", "Which city?"),
    InlineNeedsInputEv("Which city?"),
    StatusUpdateEv("working", "looking up"),
    TaskEv("completed", ""),
    TaskEv("failed", "boom"),
    TaskArtifactsEv("completed", <<Artifact(<<TextPart(Answer)>>)>>),
    TaskArtifactsEv("completed", <<Artifact(<<DataPart, TextPart("")>>)>>),
    TaskArtifactsEv("working", << >>),
    ArtifactUpdateEv(Artifact(<<DataPart, TextPart(Answer)>>)),
    MessageEv }

\* ---------------------------------------------------- canonical events

CanonicalEvent(type, task, state, message, final, artifact) ==
  [type |-> type, taskId |-> task.id, contextId |-> task.context_id,
   state |-> state, message |-> message, final |-> final,
   artifact |-> artifact]

\* the Task object enqueued at creation (new_task: state submitted)
TaskCreated(task) ==
  CanonicalEvent("task", task, "submitted", "", FALSE, NoArtifact)

\* TaskArtifactUpdateEvent(artifact=..., append=False, lastChunk=True)
ArtifactEvent(task, artifact) ==
  CanonicalEvent("artifact", task, "", "", FALSE, artifact)

\* TaskStatusUpdateEvent(status=TaskStatus(state, message), final=...)
StatusEvent(task, state, message, final) ==
  CanonicalEvent("status", task, state, message, final, NoArtifact)

\* ----------------------------------------------------------------- Relay

\* _first_text on one element of parts: a text part returns its text (even
\* an empty one), any other part has no text below it.  None is << >>, a
\* string t is <<t>>.
FirstTextOfPart(part) == IF part.kind = "text" THEN <<part.text>> ELSE << >>

\* _first_text on the parts list: the first item whose text is truthy
RECURSIVE FirstTextFrom(_, _)
FirstTextFrom(parts, i) ==
  IF i > Len(parts) THEN << >>
  ELSE LET t == FirstTextOfPart(parts[i])
       IN  IF t # << >> /\ t[1] # "" THEN t ELSE FirstTextFrom(parts, i + 1)

\* _first_text(artev.artifact.model_dump())
_first_text(artifact) == FirstTextFrom(artifact.parts, 1)

\* _enqueue_completed that reports the task as failed
_enqueue_failed(task, text) ==
  IF text = << >>
    THEN [emit |-> << >>, next |-> "raise"]
    ELSE [emit |-> <<StatusEvent(task, "failed", text[1], TRUE)>>,
          next |-> "break"]

\* _enqueue_completed: new_agent_text_message(text, ...) builds
\* TextPart(text=text), which rejects None; otherwise one final completed
\* status is enqueued.
_enqueue_completed(task, text) ==
  IF text = << >>
    THEN [emit |-> << >>, next |-> "raise"]
    ELSE [emit |-> <<StatusEvent(task, "completed", text[1], TRUE)>>,
          next |-> "break"]

\* _make_status_event
\* _make_status_event that takes over the worker's terminal states as final
MakeStatusEventFinalOnTerminal(ev, task) ==
  StatusEvent(task, ev.status.state, ev.status.message,
              ev.status.state \in {"completed", "failed"})

\* _make_status_event that closes the attempt on input_required
MakeStatusEventFinalOnInput(ev, task) ==
  StatusEvent(task, ev.status.state, ev.status.message,
              ev.status.state = "input_required")

_make_status_event(ev, task) ==
  StatusEvent(task, ev.status.state, ev.status.message, FALSE)

\* ArtifactBranch that goes on with the loop after its completed status
ArtifactBranchGoesOn(ev, task) ==
  IF "artifact" \notin ev.keys /\ ev.artifacts = << >>
    THEN [emit |-> << >>, next |-> "raise"]
    ELSE LET art == IF "artifact" \in ev.keys THEN ev.artifact
                                              ELSE ev.artifacts[1]
             fin == _enqueue_completed(task, _first_text(art))
         IN  [emit |-> <<ArtifactEvent(task, art)>> \o fin.emit,
              next |-> IF fin.next = "break" THEN "continue" ELSE fin.next]

\* execute, lines 36-42: the artifact branch.  d["artifacts"][0] raises
\* IndexError on an empty list, before anything is enqueued.
ArtifactBranch(ev, task) ==
  IF "artifact" \notin ev.keys /\ ev.artifacts = << >>
    THEN [emit |-> << >>, next |-> "raise"]
    ELSE LET art == IF "artifact" \in ev.keys THEN ev.artifact
                                              ELSE ev.artifacts[1]
             fin == _enqueue_completed(task, _first_text(art))
         IN  [emit |-> <<ArtifactEvent(task, art)>> \o fin.emit,
              next |-> fin.next]

\* CompleteBranch without its `break`
CompleteBranchNoBreak(ev, task) ==
  [emit |-> <<ArtifactEvent(task, Artifact(<<TextPart(ev.content)>>)),
              StatusEvent(task, "completed", ev.content, TRUE)>>,
   next |-> "continue"]

\* execute, lines 49-65: the completion-flag branch
CompleteBranch(ev, task) ==
  LET fin == _enqueue_completed(task, <<ev.content>>)
  IN  [emit |-> <<ArtifactEvent(task, Artifact(<<TextPart(ev.content)>>))>>
                  \o fin.emit,
       next |-> fin.next]

\* ProgressBranch that loses the worker's content
ProgressBranchNoContent(ev, task) ==
  IF "content" \notin ev.keys
    THEN [emit |-> << >>, next |-> "raise"]
    ELSE [emit |-> <<StatusEvent(task, "working", "", FALSE)>>,
          next |-> "continue"]

\* execute, lines 67-79: the default branch; ev["content"] raises KeyError
\* when the key is absent
ProgressBranch(ev, task) ==
  IF "content" \notin ev.keys
    THEN [emit |-> << >>, next |-> "raise"]
    ELSE [emit |-> <<StatusEvent(task, "working", ev.content, FALSE)>>,
          next |-> "continue"]

\* One pass of execute's loop body (lines 30-79) over one helper event:
\* the canonical events enqueued and how the pass leaves the loop.
RelayStep(ev, task) ==
  IF "artifact" \in ev.keys \/ "artifacts" \in ev.keys
    THEN ArtifactBranch(ev, task)
  ELSE IF "kind" \in ev.keys /\ ev.kind = "task" /\ "status" \in ev.keys
    THEN [emit |-> <<_make_status_event(ev, task)>>, next |-> "continue"]
  ELSE IF "is_task_complete" \in ev.keys /\ ev.is_task_complete
    THEN CompleteBranch(ev, task)
  ELSE ProgressBranch(ev, task)

\* ------------------------------------------------------------ inputs

QueryTokyo == <<"w","h","a","t"," ","t","i","m","e"," ","i","s"," ","i","t",
                " ","i","n"," ","t","o","k","y","o">>
QueryQuote == <<"T","e","l","l"," ","m","e"," ","a"," ","Q","U","O","T","E">>
QueryHi    == <<"h","i">>
QueryBoth  == <<"c","l","o","c","k"," ","q","u","o","t","e">>

Queries == {QueryTokyo, QueryQuote, QueryHi, QueryBoth}

\* What the oracle may put in reply.content: free text.
Replies ==
  { NONE,
    << >>,
    UrlA,
    UrlB,
    UrlZ,
    <<"U","s","e",":"," ","\"">> \o UrlA \o <<"\"","\n">>,
    UrlB \o <<" ","o","r"," ">> \o UrlA,
    NONE \o <<" ">> \o UrlA,
    UrlC \o <<".">>,
    Http \o Sep }

\* ------------------------------------------------------------- bounds

\* worker events one relay may consume
MaxStream == 3
\* requests one run of the orchestrator serves
MaxRequests == 1
\* calls of stream() that may be in flight together
MaxConcurrent == 2
\* times the clock is seen to advance
MaxTicks == 2

\* ----------------------------------------------------- program constants

DISCOVERY_INTERVAL == 600

\* The clock readings tried at a request's staleness check, as time elapsed
\* since the previous request: none, exactly the interval, just over it.
Delays == {0, DISCOVERY_INTERVAL, DISCOVERY_INTERVAL + 1}

\* ------------------------------------------------------------- state

VARIABLES
  cards,           \* self.cards: the Descriptor Store
  last_discovery,  \* self.last_discovery
  now,             \* the event loop's clock
  served,          \* requests started so far
  pc,              \* where the current execute() stands
  ctx,             \* the RequestContext of the current request
  orch_task,       \* orch_task of the current execute()
  q,               \* the events enqueued on the request's EventQueue
  route,           \* locals of stream(): reply, Stage 1 url, helper_url
  stream_url,      \* the worker whose stream stream() has opened
  taken,           \* the worker events the relay loop has consumed, in order
  rq,              \* per coroutine running _discover / stream: its position
  ticks,           \* clock advances so far
  calls,           \* per concurrent execute(): its task, queue and position
  cancel_out,      \* how each call of cancel() ended, in order
  wk,              \* one execute() of a worker executor
  fe               \* one _collect_stream of the front end

vars == <<cards, last_discovery, now, served, pc, ctx, orch_task, q, route,
          stream_url, taken, rq, ticks, calls, cancel_out, wk, fe>>

\* what the relay of one request works on
rvars == <<served, pc, ctx, orch_task, q, route, stream_url, taken>>
\* what only the interleaved view of the router works on
dvars == <<rq, ticks>>
\* what only the views of concurrent relays, of the worker executors and of
\* the front end work on
xvars == <<calls, cancel_out, wk, fe>>

NoTask == [id |-> "", context_id |-> ""]
\* ctx.current_task when the request continues an existing task
PrevTask == [id |-> "task-prev", context_id |-> "ctx-prev"]
\* new_task(ctx.message)
NewTask == [id |-> "task-new", context_id |-> "ctx-new"]

NoCtx == [message |-> FALSE, current_task |-> FALSE, query |-> << >>]
NoRouteYet == [replied |-> FALSE, reply |-> << >>, stage1 |-> << >>,
               fallback |-> FALSE, helper_url |-> << >>]
NoStream == << >>

\* The coroutines that run _discover: 0 is the one __init__ drives to
\* completion (line 48), 1..MaxConcurrent are calls of stream().
Procs == 0..MaxConcurrent
NoneFound == [i \in 1..Len(peer_urls) |-> << >>]
\* pc: idle, fetching (in gather, line 52), choosing (awaiting the oracle,
\* line 128), asked (suspended at the yield of the notice, lines 79-83),
\* streaming (worker stream open), done, raised.
\* settled / found: the fetches of its gather that have returned, and what
\* they returned; stale: the outcome of its staleness check;
\* swapped_at: the clock when its _discover returned, -1 if it ran none;
\* helper_url, card: the locals of lines 64 and 76.
IdleReq == [pc |-> "idle", settled |-> {}, found |-> NoneFound,
            stale |-> FALSE, swapped_at |-> -1, helper_url |-> << >>,
            card |-> << >>]

\* The executors' concurrent calls of execute().
Calls == 1..MaxConcurrent
\* no execute() running: nothing created, enqueued or consumed
IdleCall == [pc |-> "idle", current_task |-> FALSE, orch_task |-> NoTask,
             q |-> << >>, taken |-> << >>]
\* a worker executor before execute()
IdleWorker == [pc |-> "idle", agent |-> "", current_task |-> FALSE,
               steps |-> << >>, at |-> 0, q |-> << >>]
\* the front end before _collect_stream: last_event = None
IdleFront == [pc |-> "idle", stream |-> << >>, at |-> 0,
              last_event |-> << >>, result |-> << >>]

\* nothing is running beside the orchestrator
Quiet ==
  /\ calls = [c \in Calls |-> IdleCall]
  /\ cancel_out = << >>
  /\ wk = IdleWorker
  /\ fe = IdleFront

\* After construction: __init__ has run _discover once.
Init ==
  /\ \E outcomes \in [1..Len(peer_urls) -> FetchOutcomes] :
       cards = DiscoverCards(outcomes)
  /\ last_discovery = 0
  /\ now = 0
  /\ served = 0
  /\ pc = "idle"
  /\ ctx = NoCtx
  /\ orch_task = NoTask
  /\ q = << >>
  /\ route = NoRouteYet
  /\ stream_url = NoStream
  /\ taken = << >>
  /\ rq = [r \in Procs |-> IF r = 0 THEN [IdleReq EXCEPT !.pc = "done",
                                                         !.swapped_at = 0]
                                    ELSE IdleReq]
  /\ ticks = 0
  /\ Quiet

\* the staleness check that fires at the interval itself
IsStaleAtInterval(t, last) == t - last >= DISCOVERY_INTERVAL

\* stream, line 61
IsStale(t, last) == t - last > DISCOVERY_INTERVAL

\* execute that enqueues the task whether or not one pre-exists
ExecuteAlwaysCreates(message, current_task, query, d) ==
  /\ pc \in {"idle", "done", "raised"}
  /\ served < MaxRequests
  /\ served' = served + 1
  /\ now' = now + d
  /\ ctx' = [message |-> message, current_task |-> current_task,
             query |-> query]
  /\ route' = NoRouteYet
  /\ stream_url' = NoStream
  /\ taken' = << >>
  /\ IF ~message
       THEN /\ pc' = "raised"
            /\ orch_task' = NoTask
            /\ q' = << >>
       ELSE /\ orch_task' = IF current_task THEN PrevTask ELSE NewTask
            /\ q' = <<TaskCreated(orch_task')>>
            /\ pc' = IF IsStale(now', last_discovery) THEN "discover"
                                                      ELSE "choose"
  /\ UNCHANGED <<cards, last_discovery>>
  /\ UNCHANGED <<dvars, xvars>>

\* execute that makes and enqueues the task before it looks for the message
ExecuteCreatesFirst(message, current_task, query, d) ==
  /\ pc \in {"idle", "done", "raised"}
  /\ served < MaxRequests
  /\ served' = served + 1
  /\ now' = now + d
  /\ ctx' = [message |-> message, current_task |-> current_task,
             query |-> query]
  /\ route' = NoRouteYet
  /\ stream_url' = NoStream
  /\ taken' = << >>
  /\ IF ~message
       THEN /\ pc' = "raised"
            /\ orch_task' = NewTask
            /\ q' = <<TaskCreated(NewTask)>>
       ELSE /\ orch_task' = IF current_task THEN PrevTask ELSE NewTask
            /\ q' = IF current_task THEN << >> ELSE <<TaskCreated(NewTask)>>
            /\ pc' = IF IsStale(now', last_discovery) THEN "discover"
                                                      ELSE "choose"
  /\ UNCHANGED <<cards, last_discovery>>
  /\ UNCHANGED <<dvars, xvars>>

\* execute, lines 19-28, up to stream's staleness check (line 61): the
\* request arrives d time units after the previous one.
Execute(message, current_task, query, d) ==
  /\ pc \in {"idle", "done", "raised"}
  /\ served < MaxRequests
  /\ served' = served + 1
  /\ now' = now + d
  /\ ctx' = [message |-> message, current_task |-> current_task,
             query |-> query]
  /\ route' = NoRouteYet
  /\ stream_url' = NoStream
  /\ taken' = << >>
  /\ IF ~message
       THEN /\ pc' = "raised"
            /\ orch_task' = NoTask
            /\ q' = << >>
       ELSE /\ orch_task' = IF current_task THEN PrevTask ELSE NewTask
            /\ q' = IF current_task THEN << >> ELSE <<TaskCreated(NewTask)>>
            /\ pc' = IF IsStale(now', last_discovery) THEN "discover"
                                                      ELSE "choose"
  /\ UNCHANGED <<cards, last_discovery>>
  /\ UNCHANGED <<dvars, xvars>>

\* _discover (lines 50-55), awaited by stream at line 62
Discover(outcomes) ==
  /\ pc = "discover"
  /\ cards' = DiscoverCards(outcomes)
  /\ last_discovery' = now
  /\ pc' = "choose"
  /\ UNCHANGED <<now, served, ctx, orch_task, q, route, stream_url, taken>>
  /\ UNCHANGED <<dvars, xvars>>

\* FirstYield whose apology lacks the completion flag
FirstYieldNoFlag(store, url) ==
  IF NoRoute(store, url)
    THEN InlineEv(FALSE, Apology)
    ELSE InlineEv(FALSE, Asking(Lookup(store, url).name))

\* The helper event stream() yields first (lines 68-83): the apology with
\* the completion flag when there is no route, else the "Asking" notice.
FirstYield(store, url) ==
  IF NoRoute(store, url)
    THEN InlineEv(TRUE, Apology)
    ELSE InlineEv(FALSE, Asking(Lookup(store, url).name))

\* stream, lines 64-83, once the oracle has replied with `content`, and the
\* pass of execute's loop over the event stream() yields.
ChooseAgent(content) ==
  /\ pc = "choose"
  /\ LET stage1 == _choose_agent(content)
         url    == RouteUrl(cards, ctx.query, content)
         step   == RelayStep(FirstYield(cards, url), orch_task)
     IN  /\ route' = [replied |-> TRUE, reply |-> content, stage1 |-> stage1,
                      fallback |-> NeedsFallback(cards, stage1),
                      helper_url |-> url]
         /\ q' = q \o step.emit
         /\ pc' = CASE step.next = "break"    -> "done"
                    [] step.next = "continue" -> "asked"
                    [] OTHER                  -> "raised"
  /\ UNCHANGED <<cards, last_discovery, now, served, ctx, orch_task,
                 stream_url, taken>>
  /\ UNCHANGED <<dvars, xvars>>

\* self.model.ainvoke raises (line 128): nothing catches it
OracleFails ==
  /\ pc = "choose"
  /\ pc' = "raised"
  /\ UNCHANGED <<cards, last_discovery, now, served, ctx, orch_task, q,
                 route, stream_url, taken>>
  /\ UNCHANGED <<dvars, xvars>>

\* stream resumes after the "Asking" notice (lines 85-91): the worker
\* stream is opened; the request's routing locals are dead from here on.
OpenStream ==
  /\ pc = "asked"
  /\ stream_url' = route.helper_url
  /\ route' = [NoRouteYet EXCEPT !.replied = TRUE,
                                 !.helper_url = route.helper_url]
  /\ ctx' = [ctx EXCEPT !.query = << >>]
  /\ pc' = "relay"
  /\ UNCHANGED <<cards, last_discovery, now, served, orch_task, q, taken>>
  /\ UNCHANGED <<dvars, xvars>>

\* The worker stream delivers ev (lines 94-95) and execute's loop makes one
\* pass over it (lines 30-79).
WorkerEvent(ev) ==
  /\ pc = "relay"
  /\ Len(taken) < MaxStream
  /\ taken' = Append(taken, ev)
  /\ LET step == RelayStep(ev, orch_task)
     IN  /\ q' = q \o step.emit
         /\ pc' = CASE step.next = "break"    -> "done"
                    [] step.next = "continue" -> "relay"
                    [] OTHER                  -> "raised"
  /\ UNCHANGED <<cards, last_discovery, now, served, ctx, orch_task, route,
                 stream_url>>
  /\ UNCHANGED <<dvars, xvars>>

\* stream() without its except clause
StreamEndPropagates(how) ==
  /\ pc = "relay"
  /\ pc' = IF how = "closed" THEN "done" ELSE "raised"
  /\ UNCHANGED <<cards, last_discovery, now, served, ctx, orch_task, q,
                 route, stream_url, taken>>
  /\ UNCHANGED <<dvars, xvars>>

\* How a worker stream can end before the relay has left its loop.
StreamEnds == {"closed", "cancelled", "read_error", "protocol_error",
               "other_error"}

\* a worker stream whose end never reaches the loop
StreamEndHangs(how) ==
  /\ pc = "relay"
  /\ FALSE
  /\ UNCHANGED vars

\* The worker stream ends (lines 93-97): exhausted, or with one of the
\* caught exceptions, and stream() returns; any other exception propagates
\* through execute.
StreamEnd(how) ==
  /\ pc = "relay"
  /\ pc' = IF how = "other_error" THEN "raised" ELSE "done"
  /\ UNCHANGED <<cards, last_discovery, now, served, ctx, orch_task, q,
                 route, stream_url, taken>>
  /\ UNCHANGED <<dvars, xvars>>

Next ==
  \/ \E message, current_task \in BOOLEAN, query \in Queries, d \in Delays :
       Execute(message, current_task, query, d)
  \/ \E outcomes \in [1..Len(peer_urls) -> FetchOutcomes] : Discover(outcomes)
  \/ \E content \in Replies : ChooseAgent(content)
  \/ OracleFails
  \/ OpenStream
  \/ \E ev \in WorkerEvents : WorkerEvent(ev)
  \/ \E how \in StreamEnds : StreamEnd(how)

Spec == Init /\ [][Next]_vars

\* ------------------------------------------- the router, interleaved
\* The same router seen at the grain of its awaits: __init__ drives the
\* first _discover, then calls of stream() interleave at every await
\* (gather of the fetches, the oracle, the worker stream) while the clock
\* advances.  The relay of each request is left out of this view: it does
\* not touch the router's fields.

\* OrchestratorRoutingAgent.__init__, lines 40-48, at run_until_complete:
\* the store is empty, last_discovery is 0.0, _discover has started.
InitRouter ==
  /\ cards = << >>
  /\ last_discovery = 0
  /\ now = 0
  /\ ticks = 0
  /\ rq = [r \in Procs |-> IF r = 0 THEN [IdleReq EXCEPT !.pc = "fetching"]
                                    ELSE IdleReq]
  /\ served = 0
  /\ pc = "idle"
  /\ ctx = NoCtx
  /\ orch_task = NoTask
  /\ q = << >>
  /\ route = NoRouteYet
  /\ stream_url = NoStream
  /\ taken = << >>
  /\ Quiet

\* The clock readings that matter to line 61: one unit, the whole interval.
TickSizes == {1, DISCOVERY_INTERVAL}

\* time passes while coroutines wait
Tick(d) ==
  /\ ticks < MaxTicks
  /\ ticks' = ticks + 1
  /\ now' = now + d
  /\ UNCHANGED <<cards, last_discovery, rq>>
  /\ UNCHANGED <<rvars, xvars>>

\* The server that accepts requests without waiting for the router
AcceptingAtOnce == TRUE

\* main, lines 31-42: the router is constructed, and with it the first
\* _discover run to completion, before uvicorn.run starts the server.
Accepting == rq[0].pc = "done"

\* stream that starts no refresh while one is underway
StartStreamSingleFlight(r) ==
  /\ r # 0
  /\ Accepting
  /\ rq[r].pc = "idle"
  /\ LET go == /\ IsStale(now, last_discovery)
               /\ \A p \in Procs : rq[p].pc # "fetching"
     IN  rq' = [rq EXCEPT ![r] =
                  [IdleReq EXCEPT !.stale = IsStale(now, last_discovery),
                                  !.pc = IF go THEN "fetching"
                                               ELSE "choosing"]]
  /\ UNCHANGED <<cards, last_discovery, now, ticks>>
  /\ UNCHANGED <<rvars, xvars>>

\* stream, lines 57-62, up to its first await: the staleness check, and
\* _discover started when stale.
StartStream(r) ==
  /\ r # 0
  /\ Accepting
  /\ rq[r].pc = "idle"
  /\ rq' = [rq EXCEPT ![r] =
              [IdleReq EXCEPT !.stale = IsStale(now, last_discovery),
                              !.pc = IF IsStale(now, last_discovery)
                                       THEN "fetching" ELSE "choosing"]]
  /\ UNCHANGED <<cards, last_discovery, now, ticks>>
  /\ UNCHANGED <<rvars, xvars>>

\* _fetch_card (lines 18-25) of peer i returns inside r's gather
FetchSettles(r, i, outcome) ==
  /\ rq[r].pc = "fetching"
  /\ i \notin rq[r].settled
  /\ rq' = [rq EXCEPT ![r].settled = @ \cup {i},
                      ![r].found[i] = FetchCard(peer_urls[i], outcome)]
  /\ UNCHANGED <<cards, last_discovery, now, ticks>>
  /\ UNCHANGED <<rvars, xvars>>

\* The gather that returns as soon as one fetch has
GatherDoneEarly(r) == rq[r].settled # {}

\* asyncio.gather, line 52: returns when every fetch has
GatherDone(r) == rq[r].settled = 1..Len(peer_urls)

\* _discover that records the clock only when it found a worker
GatheredStampsOnSuccess(r) ==
  /\ rq[r].pc = "fetching"
  /\ GatherDone(r)
  /\ cards' = DictOfFound(rq[r].found)
  /\ last_discovery' = IF cards' = << >> THEN last_discovery ELSE now
  /\ rq' = [rq EXCEPT ![r].pc = IF r = 0 THEN "done" ELSE "choosing",
                      ![r].settled = {},
                      ![r].found = NoneFound,
                      ![r].swapped_at = now]
  /\ UNCHANGED <<now, ticks>>
  /\ UNCHANGED <<rvars, xvars>>

\* _discover that adds what it fetched to the store it finds
GatheredKeepsOld(r) ==
  /\ rq[r].pc = "fetching"
  /\ GatherDone(r)
  /\ cards' = DictOfFound([k \in 1..Len(cards) |-> <<cards[k]>>]
                          \o rq[r].found)
  /\ last_discovery' = now
  /\ rq' = [rq EXCEPT ![r].pc = IF r = 0 THEN "done" ELSE "choosing",
                      ![r].settled = {},
                      ![r].found = NoneFound,
                      ![r].swapped_at = now]
  /\ UNCHANGED <<now, ticks>>
  /\ UNCHANGED <<rvars, xvars>>

\* _discover, lines 53-55, after gather: the store is replaced and the
\* clock recorded; stream goes on to _choose_agent up to its await.
Gathered(r) ==
  /\ rq[r].pc = "fetching"
  /\ GatherDone(r)
  /\ cards' = DictOfFound(rq[r].found)
  /\ last_discovery' = now
  /\ rq' = [rq EXCEPT ![r].pc = IF r = 0 THEN "done" ELSE "choosing",
                      ![r].settled = {},
                      ![r].found = NoneFound,
                      ![r].swapped_at = now]
  /\ UNCHANGED <<now, ticks>>
  /\ UNCHANGED <<rvars, xvars>>

\* stream, lines 64-83, once the oracle has replied: the route is decided
\* against the store as it is now and the card looked up; stream() then
\* yields the apology and returns, or yields the notice.
Route(r, query, content) ==
  /\ rq[r].pc = "choosing"
  /\ LET url == RouteUrl(cards, query, content)
     IN  rq' = [rq EXCEPT ![r].helper_url = url,
                          ![r].card = IF NoRoute(cards, url)
                                        THEN << >>
                                        ELSE <<Lookup(cards, url)>>,
                          ![r].pc = IF NoRoute(cards, url) THEN "done"
                                                           ELSE "asked"]
  /\ UNCHANGED <<cards, last_discovery, now, ticks>>
  /\ UNCHANGED <<rvars, xvars>>

\* stream that looks the card up again when it opens the worker stream
OpenLooksUpAgain(r) ==
  /\ rq[r].pc = "asked"
  /\ rq' = [rq EXCEPT ![r].pc = "streaming",
                      ![r].card = IF HasKey(cards, rq[r].helper_url)
                                    THEN <<Lookup(cards, rq[r].helper_url)>>
                                    ELSE << >>]
  /\ UNCHANGED <<cards, last_discovery, now, ticks>>
  /\ UNCHANGED <<rvars, xvars>>

\* stream resumes after the notice (lines 85-91): the worker stream is
\* opened with the client made for `card` at line 77.
Open(r) ==
  /\ rq[r].pc = "asked"
  /\ rq' = [rq EXCEPT ![r].pc = "streaming"]
  /\ UNCHANGED <<cards, last_discovery, now, ticks>>
  /\ UNCHANGED <<rvars, xvars>>

\* self.model.ainvoke raises (line 128)
RouteFails(r) ==
  /\ rq[r].pc = "choosing"
  /\ rq' = [rq EXCEPT ![r].pc = "raised"]
  /\ UNCHANGED <<cards, last_discovery, now, ticks>>
  /\ UNCHANGED <<rvars, xvars>>

\* stream, lines 93-97: the worker stream is over
Finish(r) ==
  /\ rq[r].pc = "streaming"
  /\ rq' = [rq EXCEPT ![r].pc = "done"]
  /\ UNCHANGED <<cards, last_discovery, now, ticks>>
  /\ UNCHANGED <<rvars, xvars>>

\* The requests tried in the interleaved view: a query that names a tag
\* and one that names none, an oracle that declines, names a stored worker,
\* or names an unknown one.
RouterQueries == {QueryTokyo, QueryHi}
RouterReplies == {NONE, UrlB, UrlZ}

NextRouter ==
  \/ \E d \in TickSizes : Tick(d)
  \/ \E r \in Procs : StartStream(r)
  \/ \E r \in Procs, i \in 1..Len(peer_urls), outcome \in FetchOutcomes :
       FetchSettles(r, i, outcome)
  \/ \E r \in Procs : Gathered(r)
  \/ \E r \in Procs, query \in RouterQueries, content \in RouterReplies :
       Route(r, query, content)
  \/ \E r \in Procs : RouteFails(r)
  \/ \E r \in Procs : Open(r)
  \/ \E r \in Procs : Finish(r)

RouterSpec == InitRouter /\ [][NextRouter]_vars

\* ------------------------------------------------------------- claims

\* a terminal canonical event: a StatusEvent with final: true
IsTerminal(e) == e.type = "status" /\ e.final

Terminals(events) == {i \in 1..Len(events) : IsTerminal(events[i])}

\* the events of the invocation after the optional task-creation event
AfterCreation(events) ==
  IF events # << >> /\ events[1].type = "task" THEN Tail(events) ELSE events

\* C1: one invocation of execute never has more than one StatusEvent with
\* final: true on its queue, whatever the worker delivers.
C1_AtMostOneTerminal == Cardinality(Terminals(q)) <= 1

\* C1's case: the worker delivered a terminal-shaped status (completed,
\* passed on with final: false) and then a completion, and one terminal
\* event stands on the queue.
C1_Witness ==
  /\ pc = "done"
  /\ Len(taken) >= 2
  /\ \E i \in 1..Len(q) : q[i].type = "status" /\ q[i].state = "completed"
                          /\ ~q[i].final
  /\ Cardinality(Terminals(q)) = 1

\* C2: when execute has returned, exactly one terminal event is on the
\* queue, also when the worker stream held no terminal-shaped event.
C2_ExactlyOneTerminal == pc = "done" => Cardinality(Terminals(q)) = 1

\* C3: once a terminal event is on the queue, the invocation enqueues
\* nothing more and takes no further worker event: the terminal event stays
\* the last one and execute has returned.
C3_TerminalIsLast ==
  [][(Terminals(q) # {} /\ served' = served)
       => /\ q' = q
          /\ taken' = taken
          /\ pc = "done"
          /\ IsTerminal(q[Len(q)])]_vars

\* C3's case: a terminal event was enqueued after at least one worker event
\* and the bound would still let the worker deliver more.
C3_Witness ==
  /\ Terminals(q) # {}
  /\ Len(taken) >= 1
  /\ Len(taken) < MaxStream
  /\ pc = "done"

\* the event carries an artifact: an `artifact` key, or a non-empty
\* `artifacts` list
CarriesArtifact(ev) ==
  \/ "artifact" \in ev.keys
  \/ ("artifacts" \in ev.keys /\ ev.artifacts # << >>)

\* the event has the completion flag set, with inline content
CompletesInline(ev) ==
  /\ "is_task_complete" \in ev.keys
  /\ ev.is_task_complete
  /\ "content" \in ev.keys

\* C4: a pass of the relay loop over a worker event that carries an artifact
\* or completes inline enqueues exactly one ArtifactEvent, directly followed
\* by exactly one StatusEvent{completed, final: true}, and execute returns
\* without waiting for the stream to close.
C4_ArtifactThenCompleted ==
  [][\A ev \in WorkerEvents :
       (WorkerEvent(ev) /\ (CarriesArtifact(ev) \/ CompletesInline(ev)))
         => /\ Len(q') = Len(q) + 2
            /\ SubSeq(q', 1, Len(q)) = q
            /\ q'[Len(q) + 1].type = "artifact"
            /\ q'[Len(q) + 2].type = "status"
            /\ q'[Len(q) + 2].state = "completed"
            /\ q'[Len(q) + 2].final
            /\ pc' = "done"]_vars

\* k bare progress events (completion flag false) then one completion
IsProgress(ev) ==
  /\ ev.keys = {"is_task_complete", "require_user_input", "content"}
  /\ ~ev.is_task_complete

ProgressThenComplete(events) ==
  /\ events # << >>
  /\ \A i \in 1..(Len(events) - 1) : IsProgress(events[i])
  /\ CompletesInline(events[Len(events)])

\* what C5 expects for such a stream: k working statuses carrying the
\* worker's contents in order, the artifact, the completed status
RelayedOf(events, task) ==
  [i \in 1..(Len(events) + 1) |->
     IF i < Len(events)
       THEN StatusEvent(task, "working", events[i].content, FALSE)
     ELSE IF i = Len(events)
       THEN ArtifactEvent(task, Artifact(<<TextPart(events[i].content)>>))
     ELSE StatusEvent(task, "completed", events[Len(events)].content, TRUE)]

\* C5 as claimed: after task creation the caller receives exactly the k
\* working statuses, the artifact and the completed status, nothing else.
C5_Original ==
  (pc = "done" /\ ProgressThenComplete(taken))
    => AfterCreation(q) = RelayedOf(taken, orch_task)

\* C5, amended: the same sequence, preceded by the one working status that
\* carries the router's "Asking <worker name>" notice.
C5_AskingThenRelayed ==
  (pc = "done" /\ ProgressThenComplete(taken))
    => /\ HasKey(cards, stream_url)
       /\ AfterCreation(q) =
            <<StatusEvent(orch_task, "working",
                          Asking(Lookup(cards, stream_url).name), FALSE)>>
            \o RelayedOf(taken, orch_task)

\* C5's case: two progress events with different contents, then the answer
C5_Witness ==
  /\ pc = "done"
  /\ taken = <<InlineEv(FALSE, Thinking), InlineEv(FALSE, "still thinking"),
               InlineEv(TRUE, Answer)>>

\* the events of the queue in state `state`
InState(events, state) ==
  {i \in 1..Len(events) : events[i].state = state}

\* C6: once the oracle has replied over an empty store, execute has
\* returned with exactly one event in state completed, a status whose
\* message is the no-worker apology; nothing is in state failed and no
\* worker stream was opened.
C6_EmptyStoreApology ==
  (route.replied /\ cards = << >>)
    => /\ pc = "done"
       /\ Cardinality(InState(q, "completed")) = 1
       /\ \A i \in InState(q, "completed") :
            /\ q[i].type = "status"
            /\ q[i].message = Apology
            /\ q[i].final
       /\ InState(q, "failed") = {}
       /\ stream_url = NoStream
       /\ taken = << >>

\* C6's case: the store is empty and the oracle names a worker all the same
C6_Witness ==
  /\ route.replied
  /\ cards = << >>
  /\ route.reply = UrlA
  /\ ctx.query = QueryTokyo
  /\ pc = "done"

\* the Router has yielded NONE for the current request
RoutedNone == route.replied /\ route.helper_url = NONE

\* C7 as claimed: after the optional task creation, a no-route invocation
\* has enqueued one completed final StatusEvent and no other event.
C7_Original ==
  RoutedNone
    => /\ Len(AfterCreation(q)) = 1
       /\ IsTerminal(AfterCreation(q)[1])
       /\ AfterCreation(q)[1].state = "completed"

\* C7, amended: after the optional task creation, a no-route invocation has
\* enqueued one ArtifactEvent with the apology text directly followed by one
\* completed final StatusEvent with the same text, no working status; it
\* has returned and has opened no worker stream.
C7_NoRouteArtifactThenCompleted ==
  RoutedNone
    => /\ AfterCreation(q) =
            <<ArtifactEvent(orch_task, Artifact(<<TextPart(Apology)>>)),
              StatusEvent(orch_task, "completed", Apology, TRUE)>>
       /\ pc = "done"
       /\ stream_url = NoStream

\* C7's case: workers are known, neither the oracle nor the tags pick one
C7_Witness ==
  /\ RoutedNone
  /\ cards = <<CardA, CardB>>
  /\ ctx.query = QueryHi
  /\ pc = "done"

\* the routing locals of the current request are still alive (the worker
\* stream is not open yet)
Routed == route.replied /\ route.stage1 # << >>

\* C8: when Stage 1 returns a URL that is no key of the store, Stage 2 runs,
\* the routing decision is its result and never that URL: a key of the
\* store, or NONE; and no stream is ever opened to a URL outside the store.
C8_HallucinatedUrlRejected ==
  /\ (Routed /\ route.stage1 # NONE /\ ~HasKey(cards, route.stage1))
       => /\ route.fallback
          /\ route.helper_url # route.stage1
          /\ route.helper_url = _fallback_by_tags(cards, Lower(ctx.query))
          /\ (route.helper_url = NONE \/ HasKey(cards, route.helper_url))
  /\ (stream_url # NoStream => HasKey(cards, stream_url))

\* C8's case: the oracle names a URL nobody advertises and the tags find a
\* worker
C8_Witness ==
  /\ Routed
  /\ route.stage1 = UrlZ
  /\ route.helper_url = UrlB
  /\ pc = "asked"

\* The reference fallback with the id test as C9 words it: a skill's id, or
\* one of its tags, is a case-insensitive substring of the query.
RefHitAnyId(c, query) ==
  \E k \in 1..Len(c.skills) :
    \/ IsSubstr(Lower(c.skills[k].id), Lower(query))
    \/ \E j \in 1..Len(c.skills[k].tags) :
         IsSubstr(Lower(c.skills[k].tags[j]), Lower(query))

\* The reference fallback that leaves empty ids out.
RefHit(c, query) ==
  \E k \in 1..Len(c.skills) :
    \/ /\ c.skills[k].id # << >>
       /\ IsSubstr(Lower(c.skills[k].id), Lower(query))
    \/ \E j \in 1..Len(c.skills[k].tags) :
         IsSubstr(Lower(c.skills[k].tags[j]), Lower(query))

\* the url of the card at the least of the positions `hits`, else NONE
FirstUrl(store, hits) ==
  IF hits = {} THEN NONE
  ELSE store[CHOOSE i \in hits : \A j \in hits : i <= j].url

\* C9 as claimed: when Stage 2 ran, the routing result is the first
\* descriptor with a skill whose id or tag is a case-insensitive substring of
\* the query.
C9_Original ==
  (Routed /\ route.fallback)
    => route.helper_url =
         FirstUrl(cards, {i \in 1..Len(cards) : RefHitAnyId(cards[i], ctx.query)})

\* C9, amended: when Stage 2 ran, the routing result is the first
\* descriptor, in store order, with a skill whose non-empty id or one of
\* whose tags is a case-insensitive substring of the query, NONE when there
\* is none; store A, B and the Tokyo query give A.
C9_FallbackIsFirstHit ==
  (Routed /\ route.fallback)
    => /\ route.helper_url =
            FirstUrl(cards, {i \in 1..Len(cards) : RefHit(cards[i], ctx.query)})
       /\ (cards = <<CardA, CardB>> /\ ctx.query = QueryTokyo
             => route.helper_url = UrlA)

\* C9's case: the oracle said NONE, two cards match the query, the first in
\* store order is chosen
C9_Witness ==
  /\ Routed
  /\ route.fallback
  /\ route.stage1 = NONE
  /\ cards = <<CardB, CardC>>
  /\ ctx.query = QueryBoth
  /\ route.helper_url = UrlB

\* s is URL-shaped: http:// or https://, then one or more characters that
\* are neither white space nor one of " ' < >
UrlShaped(s) ==
  LET body == IF StartsAt(s, 1, Http \o Sep) THEN 8
              ELSE IF StartsAt(s, 1, Http \o <<"s">> \o Sep) THEN 9
              ELSE 0
  IN  /\ body # 0
      /\ Len(s) >= body
      /\ \A i \in body..Len(s) : s[i] \notin UrlStop

\* a URL-shaped token starts at position i of s
TokenAt(s, i) == \E j \in i..Len(s) : UrlShaped(SubSeq(s, i, j))

HasUrlToken(s) == \E i \in 1..Len(s) : TokenAt(s, i)

\* C10 as claimed: a reply without a URL-shaped token, or with the sentinel
\* word NONE in it, resolves to NONE; any other reply to a URL-shaped
\* substring of it.
C10_Original ==
  Routed
    => IF ~HasUrlToken(route.reply) \/ IsSubstr(NONE, route.reply)
         THEN route.stage1 = NONE
         ELSE UrlShaped(route.stage1) /\ IsSubstr(route.stage1, route.reply)

\* C10, amended: Stage 1 resolves to NONE exactly when the reply holds no
\* URL-shaped token, whether or not the sentinel word is in it; otherwise to
\* the leftmost URL-shaped token, taken as far as it extends.
C10_FirstUrlOrNone ==
  Routed
    => IF ~HasUrlToken(route.reply)
         THEN route.stage1 = NONE
         ELSE \E i \in 1..Len(route.reply) :
                LET e == i + Len(route.stage1) - 1
                IN  /\ UrlShaped(route.stage1)
                    /\ e <= Len(route.reply)
                    /\ SubSeq(route.reply, i, e) = route.stage1
                    /\ \A m \in 1..(i - 1) : ~TokenAt(route.reply, m)
                    /\ (e = Len(route.reply) \/ route.reply[e + 1] \in UrlStop)

\* C10's case: the reply holds the sentinel word and a URL
C10_Witness ==
  /\ Routed
  /\ route.reply = NONE \o <<" ">> \o UrlA
  /\ route.stage1 = UrlA

\* ---------------------------------------------------------------- C11

\* C11, as stated: with an empty Descriptor Store both routing stages yield
\* NONE, for every query and every oracle reply.
C11_Original ==
  (Routed /\ cards = << >>)
    => /\ route.stage1 = NONE
       /\ _fallback_by_tags(cards, Lower(ctx.query)) = NONE

\* C11, amended: with an empty Descriptor Store, Stage 1 yields NONE only
\* when the oracle's reply holds no URL-shaped token (it does not look at the
\* store); whatever it yields is handed to Stage 2, Stage 2 yields NONE for
\* every query, and the decision after both stages is NONE.
C11_EmptyStoreRoutesNone ==
  (Routed /\ cards = << >>)
    => /\ route.stage1 = NONE <=> ~HasUrlToken(route.reply)
       /\ route.fallback
       /\ _fallback_by_tags(cards, Lower(ctx.query)) = NONE
       /\ route.helper_url = NONE

\* C11's case: empty store, the oracle names a URL, the query names a tag
C11_Witness ==
  /\ Routed
  /\ cards = << >>
  /\ ctx.query = QueryQuote
  /\ route.reply = UrlB
  /\ route.stage1 = UrlB
  /\ route.helper_url = NONE

\* ---------------------------------------------------------------- C12

\* the url candidate i advertises
UrlOf(i) == ServedCard(peer_urls[i]).url

\* r's gather holds a card under the url candidate i advertises
FetchedUrl(r, i) ==
  \E j \in 1..Len(peer_urls) :
    rq[r].found[j] # << >> /\ rq[r].found[j][1].url = UrlOf(i)

\* the step in which r's _discover returns
Swaps(r) == rq[r].pc = "fetching" /\ rq'[r].pc # "fetching"

\* C12: a discovery refresh never fails as a whole.  Whatever each fetch
\* ends in (success, network error, timeout, non-success status, malformed
\* payload), a failed fetch returns None into the gather, the refresh can
\* complete once all fetches have returned, the coroutine that triggered it
\* goes on (it never ends raised inside the refresh), and a candidate whose
\* url no fetch brought back is absent from the store.
C12_RefreshNeverFails ==
  /\ [](\A r \in Procs :
          (rq[r].pc = "fetching" /\ GatherDone(r)) => ENABLED Gathered(r))
  /\ [][\A r \in Procs :
          /\ rq[r].pc = "fetching"
               => rq'[r].pc \in {"fetching", "choosing", "done"}
          /\ \A i \in 1..Len(peer_urls), outcome \in FetchOutcomes :
               FetchSettles(r, i, outcome)
                 => rq'[r].found[i] = IF outcome = "ok"
                                        THEN <<ServedCard(peer_urls[i])>>
                                        ELSE << >>
          /\ Swaps(r)
               => \A i \in 1..Len(peer_urls) :
                    ~FetchedUrl(r, i) => ~HasKey(cards', UrlOf(i))]_vars

\* C12's case: a request's refresh in which every fetch failed has
\* completed, over a store that held cards, and the request goes on.
C12_Witness ==
  /\ rq[1].pc = "choosing"
  /\ rq[1].swapped_at > 0
  /\ rq[2].pc = "idle"
  /\ cards = << >>

\* ---------------------------------------------------------------- C13

\* the candidates whose fetch brought a card into r's gather
Fetched(r) == {j \in 1..Len(peer_urls) : rq[r].found[j] # << >>}

\* C13, as stated: when a refresh completes, the store holds exactly the
\* descriptors fetched in it, one entry per successful candidate, and no
\* entry of before whose worker was not fetched this time.
C13_Original ==
  [][\A r \in Procs :
       Swaps(r)
         => /\ Len(cards') = Cardinality(Fetched(r))
            /\ \A k \in 1..Len(cards') :
                 \E j \in Fetched(r) : rq[r].found[j] = <<cards'[k]>>
            /\ \A j \in Fetched(r) :
                 \E k \in 1..Len(cards') : rq[r].found[j] = <<cards'[k]>>
            /\ \A k \in 1..Len(cards) :
                 (\A j \in Fetched(r) : rq[r].found[j][1].url # cards[k].url)
                   => ~HasKey(cards', cards[k].url)]_vars

\* C13, amended: when a refresh completes, the store holds exactly the
\* descriptors fetched in it, one entry per distinct url advertised by a
\* successful candidate (as many entries as successful candidates when
\* these advertise distinct urls), and no entry of before whose url no
\* fetch of this refresh brought back.
C13_StoreIsWhatWasFetched ==
  [][\A r \in Procs :
       Swaps(r)
         => /\ Len(cards') =
                 Cardinality({rq[r].found[j][1].url : j \in Fetched(r)})
            /\ (\A i, j \in Fetched(r) : i # j => UrlOf(i) # UrlOf(j))
                 => Len(cards') = Cardinality(Fetched(r))
            /\ \A k \in 1..Len(cards') :
                 \E j \in Fetched(r) : rq[r].found[j] = <<cards'[k]>>
            /\ \A j \in Fetched(r) :
                 \E k \in 1..Len(cards') : rq[r].found[j] = <<cards'[k]>>
            /\ \A k \in 1..Len(cards) :
                 (\A j \in Fetched(r) : rq[r].found[j][1].url # cards[k].url)
                   => ~HasKey(cards', cards[k].url)]_vars

\* C13's case: a request's refresh in which one worker was not reached has
\* completed and left the two others' descriptors.
C13_Witness ==
  /\ rq[1].pc = "choosing"
  /\ rq[1].swapped_at > 0
  /\ rq[2].pc = "idle"
  /\ cards = <<CardA, CardC>>

\* ---------------------------------------------------------------- C14

\* the step in which r's stream() makes its staleness check
Starts(r) == rq[r].pc = "idle" /\ rq'[r].pc # "idle"

\* C14: every refresh that completes sets last_discovery to the clock at
\* its completion, whatever it fetched (nothing included); and a request
\* whose staleness check comes no more than DISCOVERY_INTERVAL after the
\* completion of some refresh starts no refresh.
C14_CompletionStampsClock ==
  [][\A r \in Procs :
       /\ Swaps(r) => last_discovery' = now /\ now' = now
       /\ (/\ Starts(r)
           /\ \E p \in Procs :
                /\ rq[p].swapped_at >= 0
                /\ now - rq[p].swapped_at <= DISCOVERY_INTERVAL)
            => rq'[r].pc # "fetching"]_vars

\* C14's case: the first refresh reached no worker; a request arrives
\* exactly DISCOVERY_INTERVAL after it and goes on without a refresh.
C14_Witness ==
  /\ cards = << >>
  /\ rq[0].pc = "done"
  /\ now - rq[0].swapped_at = DISCOVERY_INTERVAL
  /\ rq[1].pc = "choosing"
  /\ rq[1].swapped_at = -1
  /\ rq[2].pc = "idle"

\* ---------------------------------------------------------------- C15

\* C15: the store changes only in the step in which a refresh whose
\* fetches have all returned completes, and then to the complete result of
\* that refresh.  No step in between touches it, so a request that reads it
\* while a refresh is in progress sees the whole store of before or the
\* whole store of after.
C15_StoreSwapsWhole ==
  [][cards' # cards
       => \E r \in Procs :
            /\ rq[r].pc = "fetching"
            /\ rq[r].settled = 1..Len(peer_urls)
            /\ rq'[r].pc # "fetching"
            /\ cards' = DictOfFound(rq[r].found)]_vars

\* C15's case: one request's refresh has fetched a card the store lacks
\* while another fetch of it is still out, and a second request that found
\* the store fresh is about to read it; the store is still the old one.
C15_Witness ==
  /\ rq[1].pc = "fetching"
  /\ rq[1].settled = {1}
  /\ rq[1].found[1] = <<CardA>>
  /\ rq[2].pc = "choosing"
  /\ rq[2].swapped_at = -1
  /\ cards = <<CardB>>

\* ---------------------------------------------------------------- C16

\* C16: the store starts empty, and until the first refresh has completed
\* it stays empty and no call of stream() has begun: whenever a request is
\* past its staleness check, the first refresh has completed.
C16_FirstRefreshBeforeRequests ==
  /\ rq[0].pc # "done"
       => /\ cards = << >>
          /\ last_discovery = 0
          /\ \A r \in Procs \ {0} : rq[r].pc = "idle"
  /\ \A r \in Procs \ {0} :
       rq[r].pc # "idle" => rq[0].pc = "done" /\ rq[0].swapped_at >= 0

\* C16's case: the first refresh took one time unit and found the three
\* workers; a request is then accepted and routed without a refresh.
C16_Witness ==
  /\ rq[0].pc = "done"
  /\ rq[0].swapped_at = 1
  /\ cards = <<CardA, CardB, CardC>>
  /\ rq[1].pc = "streaming"
  /\ rq[1].swapped_at = -1

\* ---------------------------------------------------------------- C17

\* the positions of stream() from _choose_agent on
Routing == {"choosing", "asked", "streaming", "done", "raised"}

\* C17: a request starts a refresh exactly when, at its staleness check,
\* the clock exceeds last_discovery by more than DISCOVERY_INTERVAL; the
\* refresh it started has completed before its routing begins, and the
\* routing begins, in the step that completes it, on the store that
\* refresh built; a request that finds the store fresh runs no refresh.
C17_RefreshIffStale ==
  /\ [](\A r \in Procs \ {0} :
          rq[r].pc \in Routing => (rq[r].stale <=> rq[r].swapped_at >= 0))
  /\ [][\A r \in Procs \ {0} :
          /\ Starts(r)
               => /\ rq'[r].stale <=> now - last_discovery > DISCOVERY_INTERVAL
                  /\ rq'[r].pc = IF now - last_discovery > DISCOVERY_INTERVAL
                                   THEN "fetching" ELSE "choosing"
          /\ Swaps(r)
               => /\ rq[r].stale
                  /\ rq'[r].pc = "choosing"
                  /\ cards' = DictOfFound(rq[r].found)
          /\ (rq'[r].pc \in Routing /\ rq[r].pc \notin Routing)
               => (Swaps(r) \/ (Starts(r) /\ ~rq'[r].stale))]_vars

\* C17's case: a request arrives DISCOVERY_INTERVAL + 1 after the first
\* refresh, has run its own refresh and now waits for the oracle.
C17_Witness ==
  /\ rq[0].swapped_at = 0
  /\ rq[1].stale
  /\ rq[1].pc = "choosing"
  /\ rq[1].swapped_at = DISCOVERY_INTERVAL + 1
  /\ rq[2].pc = "idle"

\* ---------------------------------------------------------------- C18

\* the step in which the relay loop takes ev from the worker stream
Consumes(ev) == pc = "relay" /\ taken' = Append(taken, ev)

\* the worker asks for more information from the user
NeedsInput(ev) ==
  \/ ev.require_user_input
  \/ "status" \in ev.keys /\ ev.status.state = "input_required"

\* C18, as stated: a worker event that asks for more information makes the
\* relay emit an input_required StatusEvent with final: true and stop.
C18_Original ==
  [][\A ev \in WorkerEvents :
       (Consumes(ev) /\ NeedsInput(ev))
         => /\ Len(q') = Len(q) + 1
            /\ q'[Len(q')].type = "status"
            /\ q'[Len(q')].state = "input_required"
            /\ q'[Len(q')].final
            /\ pc' = "done"]_vars

\* C18, amended: a Task snapshot whose embedded status is input_required is
\* passed on as one input_required StatusEvent with final: false, in place
\* of a working one; an inline event with require_user_input set and the
\* completion flag clear is relayed as a working StatusEvent with its
\* content, the flag being ignored; either way the relay goes on consuming,
\* and no input_required event on the queue is final.
C18_InputRequiredPassedOn ==
  /\ [](\A i \in 1..Len(q) :
          (q[i].type = "status" /\ q[i].state = "input_required")
            => ~q[i].final)
  /\ [][\A ev \in WorkerEvents :
          /\ (/\ Consumes(ev)
              /\ ev.keys = {"kind", "status"}
              /\ ev.kind = "task"
              /\ ev.status.state = "input_required")
               => /\ q' = Append(q, StatusEvent(orch_task, "input_required",
                                                ev.status.message, FALSE))
                  /\ pc' = "relay"
          /\ (/\ Consumes(ev)
              /\ ev.keys = {"is_task_complete", "require_user_input",
                            "content"}
              /\ ev.require_user_input
              /\ ~ev.is_task_complete)
               => /\ q' = Append(q, StatusEvent(orch_task, "working",
                                                ev.content, FALSE))
                  /\ pc' = "relay"]_vars

\* C18's case: the worker asked for more with the flag, then with an
\* input_required status; both were passed on and the relay still consumes.
C18_Witness ==
  /\ pc = "relay"
  /\ taken = <<InlineNeedsInputEv("Which city?"),
               TaskEv("input_required", "Which city?")>>
  /\ Len(q) >= 2
  /\ q[Len(q) - 1] = StatusEvent(orch_task, "working", "Which city?", FALSE)
  /\ q[Len(q)] = StatusEvent(orch_task, "input_required", "Which city?",
                             FALSE)

\* ---------------------------------------------------------------- C19

\* C19: a worker event that carries an embedded status object and no
\* artifact adds exactly one StatusEvent with final: false that carries
\* that status, whatever its state, and the relay goes on consuming.
C19_StatusPassedOn ==
  [][\A ev \in WorkerEvents :
       (/\ Consumes(ev)
        /\ "status" \in ev.keys
        /\ "artifact" \notin ev.keys
        /\ "artifacts" \notin ev.keys)
         => /\ q' = Append(q, StatusEvent(orch_task, ev.status.state,
                                          ev.status.message, FALSE))
            /\ pc' = "relay"]_vars

\* ---------------------------------------------------------------- C20

\* the ends of a worker stream the claim names: closed, cancelled,
\* connection reset (ReadError), protocol error (RemoteProtocolError)
QuietEnds == {"closed", "cancelled", "read_error", "protocol_error"}

C21_CreationIffNoTask ==
  (pc # "idle" /\ ctx.message)
    => IF ctx.current_task
         THEN /\ orch_task = PrevTask
              /\ \A i \in 1..Len(q) : q[i].type # "task"
         ELSE /\ orch_task = NewTask
              /\ q # << >>
              /\ q[1] = TaskCreated(NewTask)
              /\ \A i \in 2..Len(q) : q[i].type # "task"

\* C21's case: a request without a task has run to its end; the creation
\* event stands first, before the notice, the artifact and the completion.
C21_Witness ==
  /\ pc = "done"
  /\ ctx.message
  /\ ~ctx.current_task
  /\ Len(q) = 4
  /\ q[1] = TaskCreated(NewTask)
  /\ q[4].type = "status" /\ q[4].final

\* ---------------------------------------------------------------- C24

\* C24: a request without a message ends in the ValueError at once:
\* nothing is on its queue, no task was made, the router was not asked, no
\* worker stream was opened and no worker event taken.
C24_NoMessageAborts ==
  (pc # "idle" /\ ~ctx.message)
    => /\ pc = "raised"
       /\ q = << >>
       /\ orch_task = NoTask
       /\ route = NoRouteYet
       /\ stream_url = NoStream
       /\ taken = << >>

\* C24's case: the request without a message arrived when the store was
\* stale; it has been aborted and the store is still stale, not refreshed.
C24_Witness ==
  /\ pc = "raised"
  /\ ~ctx.message
  /\ ~ctx.current_task
  /\ IsStale(now, last_discovery)
  /\ q = << >>

\* ---------------------------------------------------------------- C26

\* C26: every StatusEvent on the queue with final: true is in state
\* completed; a status in state failed or input_required is on the queue
\* only with final: false.
C26_FinalIsCompleted ==
  \A i \in 1..Len(q) :
    q[i].type = "status"
      => /\ q[i].final => q[i].state = "completed"
         /\ q[i].state \in {"failed", "input_required"} => ~q[i].final

\* C26's case: the worker reported failed, then input_required, then
\* completed with an answer; the two were passed on, the last is final.
C26_Witness ==
  /\ pc = "done"
  /\ taken = <<TaskEv("failed", "boom"),
               TaskEv("input_required", "Which city?"),
               InlineEv(TRUE, Answer)>>
  /\ q[Len(q) - 3] = StatusEvent(orch_task, "failed", "boom", FALSE)
  /\ q[Len(q) - 2] = StatusEvent(orch_task, "input_required", "Which city?",
                                 FALSE)
  /\ q[Len(q)] = StatusEvent(orch_task, "completed", Answer, TRUE)

\* ---------------------------------------------------------------- C27

\* the step in which r's stream() opens the worker stream
Opens(r) == rq[r].pc = "asked" /\ rq'[r].pc = "streaming"

\* C27, as stated: the descriptor the worker stream is opened with is an
\* entry of the store as the store is when the stream is opened.
C27_Original ==
  [][\A r \in Procs :
       Opens(r)
         => /\ HasKey(cards, rq[r].helper_url)
            /\ rq[r].card = <<Lookup(cards, rq[r].helper_url)>>]_vars

\* C27, amended: the descriptor the worker stream is opened with is the
\* entry the store held under the chosen url when the route was decided,
\* after the oracle's reply; the decision never names a url the store lacks
\* at that instant, whatever refreshes completed during the oracle wait, and
\* the lookup never fails; a refresh that completes between the decision
\* and the opening of the stream does not change the descriptor used.
C27_CardIsOfRoutingInstant ==
  [][\A r \in Procs :
       /\ \A query \in RouterQueries, content \in RouterReplies :
            Route(r, query, content)
              => IF rq'[r].pc = "asked"
                   THEN /\ HasKey(cards, rq'[r].helper_url)
                        /\ rq'[r].card = <<Lookup(cards, rq'[r].helper_url)>>
                   ELSE /\ rq'[r].pc = "done"
                        /\ rq'[r].helper_url = NONE
       /\ Opens(r)
            => /\ rq'[r].card = rq[r].card
               /\ rq'[r].helper_url = rq[r].helper_url
               /\ rq[r].card # << >>
               /\ rq[r].card[1].url = rq[r].helper_url]_vars

\* C27's case: a request was routed to a worker and waits at the notice;
\* another request's refresh has since completed without that worker.
C27_Witness ==
  /\ rq[1].pc = "asked"
  /\ rq[1].helper_url = UrlB
  /\ rq[1].card = <<CardB>>
  /\ rq[2].swapped_at > 0
  /\ ~HasKey(cards, UrlB)

\* ---------------------------------------------------------------- C28

\* the coroutines whose _discover is in flight
InFlight == {p \in Procs : rq[p].pc = "fetching"}

\* C28, as stated: at most one discovery refresh is in flight at any time.
C28_Original == Cardinality(InFlight) <= 1

\* C28, amended: nothing limits the refreshes in flight: every request
\* whose staleness check finds the store stale starts its own refresh, also
\* while another refresh is underway; each replaces the store when its own
\* fetches have returned, so last_discovery is the completion time of the
\* refresh that completed last, whenever that refresh started.
C28_EveryStaleRequestRefreshes ==
  /\ [](\A p \in Procs : rq[p].swapped_at <= last_discovery)
  /\ [](rq[0].pc = "done"
          => \E p \in Procs : rq[p].swapped_at = last_discovery)
  /\ [][\A r \in Procs \ {0} :
          (Starts(r) /\ now - last_discovery > DISCOVERY_INTERVAL)
            => rq'[r].pc = "fetching"]_vars

\* C28's case: two requests found the store stale and both run a refresh;
\* the fetches of each have brought back different things so far.
C28_Witness ==
  /\ InFlight = {1, 2}
  /\ rq[1].settled = {1, 2}
  /\ rq[1].found[2] = <<CardB>>
  /\ rq[2].settled = {2}
  /\ rq[2].found[2] = << >>


\* ------------------------------------------------ the worker executors
\* TellTimeAgentExecutor and GreetAgentExecutor, each in its own process,
\* driven by the step stream of its agent.  The orchestrator is left out of
\* this view.

\* a step an agent's stream() yields
Step(complete, needs_input, content) ==
  [is_task_complete |-> complete, require_user_input |-> needs_input,
   content |-> content]

\* the progress and apology texts (their typographic ellipsis and apostrophe
\* written in ASCII)
Fetching   == "Fetching the local time..."
Formatting == "Formatting the result..."
Crafting   == "Crafting your personalized greeting..."
Sorry      == "Sorry, I couldn't get the time. Please try again?"
Greeting   == "Good morning! Carpe diem."

\* graph steps one run of the time agent's graph may take
MaxGraph == 2
\* The last message of a graph step: an AIMessage with tool calls, a
\* ToolMessage, anything else.
GraphSteps == {"ai_tool_calls", "tool", "ai"}
GraphRuns == UNION {[1..n -> GraphSteps] : n \in 0..MaxGraph}

\* structured_response of the graph state: a ResponseFormat, or none
Structured(status, message) == <<[status |-> status, message |-> message]>>
StructuredResponses ==
  { Structured("completed", Answer),
    Structured("input_required", "Which city?"),
    Structured("error", "Unknown time zone."),
    << >> }

\* TellTimeByLocationAgent._final
_final(structured) ==
  IF structured # << >>
    THEN LET done == structured[1].status = "completed"
         IN  Step(done, ~done, structured[1].message)
    ELSE Step(FALSE, TRUE, Sorry)

\* the progress steps of TellTimeByLocationAgent.stream over a graph run
RECURSIVE ProgressFrom(_, _)
ProgressFrom(graph, i) ==
  IF i > Len(graph) THEN << >>
  ELSE (IF graph[i] = "ai_tool_calls" THEN <<Step(FALSE, FALSE, Fetching)>>
        ELSE IF graph[i] = "tool" THEN <<Step(FALSE, FALSE, Formatting)>>
        ELSE << >>) \o ProgressFrom(graph, i + 1)

\* TellTimeByLocationAgent.stream
TimeStream(graph, structured) ==
  ProgressFrom(graph, 1) \o <<_final(structured)>>

\* GreetingQuoteAgent.stream: final_text is the model's stripped reply
GreetStream(final_text) ==
  <<Step(FALSE, FALSE, Crafting), Step(TRUE, FALSE, final_text)>>

\* the step streams an agent can yield when it does not raise
AgentStreams(agent) ==
  IF agent = "time"
    THEN {TimeStream(g, s) : g \in GraphRuns, s \in StructuredResponses}
    ELSE {GreetStream(t) : t \in {Greeting, ""}}

\* context.current_task of a worker's request, and new_task(context.message)
WorkerPrevTask == [id |-> "wtask-prev", context_id |-> "wctx-prev"]
WorkerNewTask  == [id |-> "wtask-new", context_id |-> "wctx-new"]
WorkerTaskOf(current_task) ==
  IF current_task THEN WorkerPrevTask ELSE WorkerNewTask

\* the artifact and the completed status both executors enqueue for a
\* complete step: new_text_artifact(text=step["content"]), then
\* TaskStatus(state=completed) without a message, final=True
CompletedEvents(step, task) ==
  <<ArtifactEvent(task, Artifact(<<TextPart(step.content)>>)),
    StatusEvent(task, "completed", "", TRUE)>>

\* the time executor's loop body with an input_required that is not final
TimeStepEventsInputOpen(step, task) ==
  IF step.is_task_complete THEN CompletedEvents(step, task)
  ELSE IF step.require_user_input
    THEN <<StatusEvent(task, "input_required", step.content, FALSE)>>
  ELSE <<StatusEvent(task, "working", step.content, FALSE)>>

\* TellTimeAgentExecutor.execute, the loop body
TimeStepEvents(step, task) ==
  IF step.is_task_complete THEN CompletedEvents(step, task)
  ELSE IF step.require_user_input
    THEN <<StatusEvent(task, "input_required", step.content, TRUE)>>
  ELSE <<StatusEvent(task, "working", step.content, FALSE)>>

\* GreetAgentExecutor.execute, the loop body: require_user_input is not read
GreetStepEvents(step, task) ==
  IF step.is_task_complete THEN CompletedEvents(step, task)
  ELSE <<StatusEvent(task, "working", step.content, FALSE)>>

StepEvents(agent, step, task) ==
  IF agent = "time" THEN TimeStepEvents(step, task)
                    ELSE GreetStepEvents(step, task)

WorkerAgents == {"time", "greet"}

\* execute up to the loop: no message raises ValueError; a request without
\* a task gets a new one, which is enqueued
WorkerExecute(agent, message, current_task, steps) ==
  /\ wk.pc = "idle"
  /\ wk' = IF ~message
             THEN [IdleWorker EXCEPT !.pc = "raised", !.agent = agent,
                                     !.current_task = current_task]
             ELSE [pc |-> "running", agent |-> agent,
                   current_task |-> current_task, steps |-> steps, at |-> 0,
                   q |-> IF current_task
                           THEN << >>
                           ELSE <<TaskCreated(WorkerNewTask)>>]
  /\ UNCHANGED <<cards, last_discovery, now, rvars, dvars, calls,
                 cancel_out, fe>>

\* one pass of the loop over the next step of the agent's stream
WorkerStep ==
  /\ wk.pc = "running"
  /\ wk.at < Len(wk.steps)
  /\ wk' = [wk EXCEPT !.at = @ + 1,
                      !.q = @ \o StepEvents(wk.agent, wk.steps[wk.at + 1],
                                            WorkerTaskOf(wk.current_task))]
  /\ UNCHANGED <<cards, last_discovery, now, rvars, dvars, calls,
                 cancel_out, fe>>

\* the agent's stream is exhausted: execute returns
WorkerReturns ==
  /\ wk.pc = "running"
  /\ wk.at = Len(wk.steps)
  /\ wk' = [wk EXCEPT !.pc = "done"]
  /\ UNCHANGED <<cards, last_discovery, now, rvars, dvars, calls,
                 cancel_out, fe>>

\* the agent's stream raises before its final step (the model call or the
\* graph fails): execute raises with it
AgentRaises ==
  /\ wk.pc = "running"
  /\ wk.at < Len(wk.steps)
  /\ wk' = [wk EXCEPT !.pc = "raised"]
  /\ UNCHANGED <<cards, last_discovery, now, rvars, dvars, calls,
                 cancel_out, fe>>

NextWorker ==
  \/ \E agent \in WorkerAgents, message, current_task \in BOOLEAN :
       \E steps \in AgentStreams(agent) :
         WorkerExecute(agent, message, current_task, steps)
  \/ WorkerStep
  \/ WorkerReturns
  \/ AgentRaises

\* The worker's process on its own; the orchestrator stays as constructed.
WorkerSpec == InitRouter /\ [][NextWorker]_vars

\* the positions of the status events with final: true
Finals(s) == {i \in 1..Len(s) : s[i].type = "status" /\ s[i].final}
Artifacts(s) == {i \in 1..Len(s) : s[i].type = "artifact"}

\* C29: a worker executor never emits a failed state nor more than one
\* status event with final: true; when execute returns after its agent's
\* step stream (progress steps, then one final step), exactly one final
\* status was emitted and it is the last event: completed, right after the
\* only artifact event, when the final step is complete; otherwise the
\* executor is the time agent's and the state is input_required.
C29_OneFinalLast ==
  /\ \A i \in 1..Len(wk.q) : wk.q[i].state # "failed"
  /\ Cardinality(Finals(wk.q)) <= 1
  /\ wk.pc = "done" =>
       LET n    == Len(wk.q)
           last == wk.steps[Len(wk.steps)]
       IN  /\ Finals(wk.q) = {n}
           /\ IF last.is_task_complete
                THEN /\ wk.q[n].state = "completed"
                     /\ Artifacts(wk.q) = {n - 1}
                     /\ wk.q[n - 1].artifact
                          = Artifact(<<TextPart(last.content)>>)
                ELSE /\ wk.agent = "time"
                     /\ wk.q[n].state = "input_required"
                     /\ Artifacts(wk.q) = {}

\* the time executor returned after two progress steps and a missing
\* structured response
C29_Witness ==
  /\ wk.pc = "done"
  /\ wk.agent = "time"
  /\ wk.steps = <<Step(FALSE, FALSE, Fetching), Step(FALSE, FALSE, Formatting),
                  Step(FALSE, TRUE, Sorry)>>
  /\ Len(wk.q) = 4
  /\ wk.q[4] = StatusEvent(WorkerNewTask, "input_required", Sorry, TRUE)


\* ------------------------------------------------------- the front end
\* _collect_stream over the stream client.send_message returns for one
\* query to the orchestrator.

\* events one stream may deliver to the front end
MaxFront == 3

\* An event as _collect_stream holds it after model_dump(exclude_none=True):
\* a dict.  `keys` is the set of its keys that _walk tests; a field whose
\* key is absent holds a filler value.
FrontNode(keys, status, artifact, artifacts) ==
  [keys |-> keys, status |-> status, artifact |-> artifact,
   artifacts |-> artifacts]

\* the dict of a canonical event of the orchestrator
DumpOf(ev) ==
  IF ev.type = "artifact"
    THEN FrontNode({"kind", "artifact"}, NoStatus, ev.artifact, << >>)
  ELSE IF ev.type = "status"
    THEN FrontNode({"kind", "status", "final"},
                   [state |-> ev.state, message |-> ev.message],
                   NoArtifact, << >>)
  ELSE FrontNode({"kind", "status", "history"},
                 [state |-> ev.state, message |-> ""], NoArtifact, << >>)

\* the dict of the Task the client hands over as item 0 of a pair, once
\* artifacts have been added to it
SnapshotOf(state, artifacts) ==
  FrontNode({"kind", "status", "history", "artifacts"},
            [state |-> state, message |-> ""], NoArtifact, artifacts)

\* _artifact_text: the text of the first part of kind "text", whatever it
\* is; None (<< >>) when there is no such part (an artifact dict has no
\* "text" key of its own)
RECURSIVE ArtifactTextFrom(_, _)
ArtifactTextFrom(parts, i) ==
  IF i > Len(parts) THEN << >>
  ELSE IF parts[i].kind = "text" THEN <<parts[i].text>>
  ELSE ArtifactTextFrom(parts, i + 1)

_artifact_text(art) == ArtifactTextFrom(art.parts, 1)

\* `if txt`: None and the empty string are both passed over
Truthy(txt) == IF txt # << >> /\ txt[1] # "" THEN txt ELSE << >>

\* lines 92-96: the first artifact of the list whose text is truthy
RECURSIVE ArtifactsTextFrom(_, _)
ArtifactsTextFrom(arts, i) ==
  IF i > Len(arts) THEN << >>
  ELSE LET txt == Truthy(_artifact_text(arts[i]))
       IN  IF txt # << >> THEN txt ELSE ArtifactsTextFrom(arts, i + 1)

\* _walk that also reads the text of a status message
WalkReadingStatus(node) ==
  LET a == IF "artifacts" \in node.keys
             THEN ArtifactsTextFrom(node.artifacts, 1) ELSE << >>
      b == IF "artifact" \in node.keys
             THEN Truthy(_artifact_text(node.artifact)) ELSE << >>
      c == IF "status" \in node.keys
             THEN Truthy(<<node.status.message>>) ELSE << >>
  IN  IF a # << >> THEN a ELSE IF b # << >> THEN b ELSE c

\* _walk on an event dict.  Text is only ever read by _artifact_text, from
\* "artifacts" and "artifact": the walk into status.message (lines 101-106)
\* and into every value (lines 107-110) meets dicts without those keys,
\* whose leaves are strings, and returns None for them.
_walk(node) ==
  LET a == IF "artifacts" \in node.keys
             THEN ArtifactsTextFrom(node.artifacts, 1) ELSE << >>
      b == IF "artifact" \in node.keys
             THEN Truthy(_artifact_text(node.artifact)) ELSE << >>
  IN  IF a # << >> THEN a ELSE b

\* _extract_text: _normalise leaves a dict as it is
_extract_text(node) == _walk(node)

\* The events a stream of the orchestrator may hand to the front end.
FrontEvents ==
  { DumpOf(TaskCreated(NewTask)),
    DumpOf(StatusEvent(NewTask, "working", Asking("Find Time Agent"), FALSE)),
    DumpOf(StatusEvent(NewTask, "completed", Answer, TRUE)),
    DumpOf(ArtifactEvent(NewTask, Artifact(<<TextPart(Answer)>>))),
    DumpOf(ArtifactEvent(NewTask, Artifact(<<TextPart("")>>))),
    DumpOf(ArtifactEvent(NewTask, Artifact(<<DataPart>>))),
    SnapshotOf("completed", <<Artifact(<<DataPart>>),
                              Artifact(<<TextPart(Greeting)>>)>>) }

FrontStreams == UNION {[1..n -> FrontEvents] : n \in 0..MaxFront}

\* _send_sync: the query is sent and _collect_stream starts on the stream
FrontSend(stream) ==
  /\ fe.pc = "idle"
  /\ fe' = [IdleFront EXCEPT !.pc = "collecting", !.stream = stream]
  /\ UNCHANGED <<cards, last_discovery, now, rvars, dvars, calls,
                 cancel_out, wk>>

\* _collect_stream, one pass of the loop: an event with text is returned
\* at once, any other becomes last_event
FrontNext ==
  /\ fe.pc = "collecting"
  /\ fe.at < Len(fe.stream)
  /\ LET ev_dict == fe.stream[fe.at + 1]
     IN  fe' = IF _extract_text(ev_dict) # << >>
                 THEN [fe EXCEPT !.at = @ + 1, !.result = <<ev_dict>>,
                                 !.pc = "returned"]
                 ELSE [fe EXCEPT !.at = @ + 1, !.last_event = <<ev_dict>>]
  /\ UNCHANGED <<cards, last_discovery, now, rvars, dvars, calls,
                 cancel_out, wk>>

\* _collect_stream, the stream is exhausted: last_event is returned
FrontEnd ==
  /\ fe.pc = "collecting"
  /\ fe.at = Len(fe.stream)
  /\ fe' = [fe EXCEPT !.result = fe.last_event, !.pc = "returned"]
  /\ UNCHANGED <<cards, last_discovery, now, rvars, dvars, calls,
                 cancel_out, wk>>

\* the stream raises (the connection breaks): _collect_stream raises with it
FrontBreaks ==
  /\ fe.pc = "collecting"
  /\ fe.at < Len(fe.stream)
  /\ fe' = [fe EXCEPT !.pc = "raised"]
  /\ UNCHANGED <<cards, last_discovery, now, rvars, dvars, calls,
                 cancel_out, wk>>

NextFront ==
  \/ \E stream \in FrontStreams : FrontSend(stream)
  \/ FrontNext
  \/ FrontEnd
  \/ FrontBreaks

\* The front end's process on its own.
FrontSpec == InitRouter /\ [][NextFront]_vars

\* the positions of the events of a stream that carry an artifact, and of
\* those whose first text part of an artifact is a non-empty text
Bearing(stream) ==
  {i \in 1..Len(stream) : "artifact" \in stream[i].keys
                          \/ "artifacts" \in stream[i].keys}
WithText(stream) ==
  {i \in 1..Len(stream) :
     \/ /\ "artifact" \in stream[i].keys
        /\ \E j \in 1..Len(stream[i].artifact.parts) :
             /\ stream[i].artifact.parts[j].kind = "text"
             /\ stream[i].artifact.parts[j].text # ""
             /\ \A k \in 1..(j - 1) :
                  stream[i].artifact.parts[k].kind # "text"
     \/ /\ "artifacts" \in stream[i].keys
        /\ \E a \in 1..Len(stream[i].artifacts) :
             \E j \in 1..Len(stream[i].artifacts[a].parts) :
               /\ stream[i].artifacts[a].parts[j].kind = "text"
               /\ stream[i].artifacts[a].parts[j].text # ""
               /\ \A k \in 1..(j - 1) :
                    stream[i].artifacts[a].parts[k].kind # "text"}
First(S) == CHOOSE i \in S : \A j \in S : i <= j

\* C30 as stated: whenever the stream has an artifact-bearing event, the
\* collector returns the first of them.
C30_Original ==
  (fe.pc = "returned" /\ Bearing(fe.stream) # {})
    => fe.result = <<fe.stream[First(Bearing(fe.stream))]>>

\* C30: the collector returns the first event in which an artifact's first
\* text part is a non-empty text and consumes nothing after it; events
\* without an artifact (status and task events, whatever their message) and
\* artifacts whose text is empty or missing never stop it; when no event
\* has such text it consumes the whole stream and returns the last event,
\* nothing for an empty stream.
C30_FirstTextOrLast ==
  fe.pc = "returned" =>
    LET n == Len(fe.stream)
        T == WithText(fe.stream)
    IN  IF T # {}
          THEN /\ fe.at = First(T)
               /\ fe.result = <<fe.stream[First(T)]>>
               /\ First(T) \in Bearing(fe.stream)
          ELSE /\ fe.at = n
               /\ fe.result = IF n = 0 THEN << >> ELSE <<fe.stream[n]>>

\* a notice and an artifact without text are passed over, the answer is
\* returned
C30_Witness ==
  /\ fe.pc = "returned"
  /\ fe.stream
       = <<DumpOf(StatusEvent(NewTask, "working", Asking("Find Time Agent"),
                              FALSE)),
           DumpOf(ArtifactEvent(NewTask, Artifact(<<TextPart(Answer)>>))),
           DumpOf(StatusEvent(NewTask, "completed", Answer, TRUE))>>
  /\ fe.at = 2
  /\ fe.result = <<fe.stream[2]>>


\* ------------------------------------------------- concurrent requests
\* One OrchestratorExecutor serving several requests at once: every call
\* of execute() is a coroutine of its own, with its own locals and its own
\* EventQueue, and they interleave at each await of the relay loop.  The
\* routing each call does first is set out in the interleaved view of the
\* router above; here a call's stream is whatever its worker delivers.

\* worker events one of the concurrent relays may consume
MaxCallStream == 2
\* calls of cancel() in one run
MaxCancels == 1

\* uuid4: the ids new_task gives the request of call c, and those of the
\* task call c's request continues
CallNewTask(c) ==
  [id |-> "task-new-" \o ToString(c), context_id |-> "ctx-new-" \o ToString(c)]
CallPrevTask(c) ==
  [id |-> "task-prev-" \o ToString(c),
   context_id |-> "ctx-prev-" \o ToString(c)]

\* The events the worker streams of concurrent calls may deliver.
CallEvents ==
  { InlineEv(FALSE, Thinking),
    InlineEv(TRUE, Answer),
    TaskEv("working", "looking up"),
    ArtifactUpdateEv(Artifact(<<DataPart, TextPart(Answer)>>)),
    MessageEv }

\* After construction, with every peer's descriptor in the store.
InitShared ==
  /\ cards = DiscoverCards([i \in 1..Len(peer_urls) |-> "ok"])
  /\ last_discovery = 0
  /\ now = 0
  /\ served = 0
  /\ pc = "idle"
  /\ ctx = NoCtx
  /\ orch_task = NoTask
  /\ q = << >>
  /\ route = NoRouteYet
  /\ stream_url = NoStream
  /\ taken = << >>
  /\ rq = [r \in Procs |-> IF r = 0 THEN [IdleReq EXCEPT !.pc = "done",
                                                         !.swapped_at = 0]
                                    ELSE IdleReq]
  /\ ticks = 0
  /\ Quiet

\* execute, lines 19-26, for call c
CallExecute(c, message, current_task) ==
  /\ calls[c].pc = "idle"
  /\ calls' = [calls EXCEPT ![c] =
       IF ~message
         THEN [IdleCall EXCEPT !.pc = "raised",
                               !.current_task = current_task]
         ELSE LET task == IF current_task THEN CallPrevTask(c)
                                          ELSE CallNewTask(c)
              IN  [pc |-> "relay", current_task |-> current_task,
                   orch_task |-> task,
                   q |-> IF current_task THEN << >>
                                         ELSE <<TaskCreated(task)>>,
                   taken |-> << >>]]
  /\ UNCHANGED <<cards, last_discovery, now, rvars, dvars, cancel_out, wk, fe>>

\* the loop pass of an executor that keeps the task on itself: the events
\* go out under the task of whichever call started
CallEventSharedTask(c, ev) ==
  /\ calls[c].pc = "relay"
  /\ Len(calls[c].taken) < MaxCallStream
  /\ LET other == CHOOSE o \in Calls : o # c
         task  == IF calls[other].pc # "idle" /\ calls[other].orch_task # NoTask
                    THEN calls[other].orch_task ELSE calls[c].orch_task
         step  == RelayStep(ev, task)
     IN  calls' = [calls EXCEPT ![c] =
           [@ EXCEPT !.taken = Append(@, ev),
                     !.q = @ \o step.emit,
                     !.pc = CASE step.next = "break"    -> "done"
                              [] step.next = "continue" -> "relay"
                              [] OTHER                  -> "raised"]]
  /\ UNCHANGED <<cards, last_discovery, now, rvars, dvars, cancel_out, wk, fe>>

\* execute, lines 28-79, for call c: one pass of the loop over the next
\* event of its own stream, enqueued on its own queue under its own task
CallEvent(c, ev) ==
  /\ calls[c].pc = "relay"
  /\ Len(calls[c].taken) < MaxCallStream
  /\ LET step == RelayStep(ev, calls[c].orch_task)
     IN  calls' = [calls EXCEPT ![c] =
           [@ EXCEPT !.taken = Append(@, ev),
                     !.q = @ \o step.emit,
                     !.pc = CASE step.next = "break"    -> "done"
                              [] step.next = "continue" -> "relay"
                              [] OTHER                  -> "raised"]]
  /\ UNCHANGED <<cards, last_discovery, now, rvars, dvars, cancel_out, wk, fe>>

\* the stream of call c ends before its relay has left the loop
CallStreamEnd(c, how) ==
  /\ calls[c].pc = "relay"
  /\ calls' = [calls EXCEPT ![c].pc =
                 IF how = "other_error" THEN "raised" ELSE "done"]
  /\ UNCHANGED <<cards, last_discovery, now, rvars, dvars, cancel_out, wk, fe>>

\* cancel that closes the relay of the call it is aimed at and reports
\* success
CancelClosesRelay(c) ==
  /\ Len(cancel_out) < MaxCancels
  /\ cancel_out' = Append(cancel_out,
                          [call |-> c, at |-> calls[c].pc,
                           outcome |-> "canceled"])
  /\ calls' = [calls EXCEPT ![c] =
       IF @.pc = "relay"
         THEN [@ EXCEPT !.pc = "done",
                        !.q = Append(@, StatusEvent(calls[c].orch_task,
                                                    "canceled", "", TRUE))]
         ELSE @]
  /\ UNCHANGED <<cards, last_discovery, now, rvars, dvars, wk, fe>>

\* OrchestratorExecutor.cancel for the task of call c: raises
\* NotImplementedError("Cancel not supported") and does nothing else.
\* `at` notes where call c stood when cancel was called.
Cancel(c) ==
  /\ Len(cancel_out) < MaxCancels
  /\ cancel_out' = Append(cancel_out,
                          [call |-> c, at |-> calls[c].pc,
                           outcome |-> "not_supported"])
  /\ UNCHANGED <<cards, last_discovery, now, rvars, dvars, calls, wk, fe>>

NextShared ==
  \/ \E c \in Calls, message, current_task \in BOOLEAN :
       CallExecute(c, message, current_task)
  \/ \E c \in Calls, ev \in CallEvents : CallEvent(c, ev)
  \/ \E c \in Calls, how \in StreamEnds : CallStreamEnd(c, how)
  \/ \E c \in Calls : Cancel(c)

SharedSpec == InitShared /\ [][NextShared]_vars

\* the task of the request call c serves
OwnTask(c) == IF calls[c].current_task THEN CallPrevTask(c)
                                       ELSE CallNewTask(c)
\* the canonical events the loop makes of a call's worker events, in the
\* order of those events
RECURSIVE TranslatedFrom(_, _, _)
TranslatedFrom(evs, i, task) ==
  IF i > Len(evs) THEN << >>
  ELSE RelayStep(evs[i], task).emit \o TranslatedFrom(evs, i + 1, task)

C25_CancelNotSupported ==
  /\ [](\A i \in 1..Len(cancel_out) : cancel_out[i].outcome = "not_supported")
  /\ [][cancel_out' # cancel_out
          => /\ Len(cancel_out') = Len(cancel_out) + 1
             /\ calls' = calls
             /\ cards' = cards
             /\ last_discovery' = last_discovery]_vars

\* cancel was called on a relay in flight, which then went on to its end
C25_Witness ==
  /\ cancel_out # << >>
  /\ cancel_out[1].call = 1
  /\ cancel_out[1].at = "relay"
  /\ cancel_out[1].outcome = "not_supported"
  /\ calls[1].pc = "done"
  /\ Len(calls[1].q) = 4
  /\ cards # << >>


\* ---------------------------------------------------------- termination
\* One request whose worker stream is finite: once the stream is open, its
\* end (exhaustion, or an exception of the transport) does reach the loop
\* that awaits it, unless the loop has left before.
FairSpec == Spec /\ WF_vars(\E how \in StreamEnds : StreamEnd(how))

\* a worker event of one of the two shapes after which the loop breaks: it
\* has an artifact key, or the completion flag set
TerminalShaped(ev) ==
  \/ "artifact" \in ev.keys
  \/ "artifacts" \in ev.keys
  \/ ("is_task_complete" \in ev.keys /\ ev.is_task_complete)

====
